---------------------------- MODULE Spec2Model ----------------------------
(***************************************************************************)
(* A model of the ucsf-nmr crate (src/src/lib.rs): the parser of the UCSF  *)
(* spectrum format, the per-axis tile geometry, the tile iterator, the     *)
(* in-tile iterator with absolute positions, the dense reconstruction and  *)
(* the two coordinate-mapping functions.                                   *)
(*                                                                         *)
(* Conventions                                                             *)
(*  - Rust vectors and slices are TLA+ sequences; a Rust index i is the    *)
(*    TLA+ index i + 1.  Offsets, counters and coordinates keep their      *)
(*    0-based Rust values.                                                 *)
(*  - A call that can panic returns a record with an "ok" field; a panic   *)
(*    is ok = FALSE.                                                       *)
(*  - An f32 is modelled by its bit pattern (a natural number); 0.0 is the *)
(*    pattern 0.                                                           *)
(*  - The programs that parse a file keep all magnitudes far below 2^31,   *)
(*    where the u32 and usize arithmetic of the code is exact.  The axis   *)
(*    geometry at the full width of its u32 fields, where the arithmetic   *)
(*    can overflow, is modelled separately on base-256 digits.             *)
(***************************************************************************)
EXTENDS Integers, Sequences, FiniteSets, TLC

(***************************************************************************)
(* Bounds of the model.                                                    *)
(***************************************************************************)
\* largest data_points value an axis record of an input carries
MaxPoints == 3
\* largest tile_size value an axis record of an input carries
MaxTile == 2
\* largest input buffer, in bytes
MaxInputLen == 672
\* largest extent of a sizes vector handed to the coordinate mapper directly
MaxExtent == 3
\* longest sizes vector handed to the coordinate mapper directly
MaxMapperDims == 4

MaxComponents == 3

MaxFormatVersion == 3

MaxWideOffset == 3

(***************************************************************************)
(* Constants of the format, as the parser uses them.                       *)
(***************************************************************************)
\* tag(b"UCSF NMR")
MagicToken == <<85, 67, 83, 70, 32, 78, 77, 82>>
\* tag(8) + take(2) + be_u8 + be_u8 + be_u16 + take(166)
HeaderSize == 180
\* take(8) + be_u32 + take(4) + be_u32 + 3 * be_f32 + take(96)
AxisHeaderSize == 128
\* each data point is an f32
SampleWidth == 4

(***************************************************************************)
(* Small helpers for Rust iterator adaptors.                               *)
(***************************************************************************)
RECURSIVE Product(_)
\* Iterator::product over a slice of usize; the empty product is 1
Product(s) == IF s = <<>> THEN 1 ELSE Head(s) * Product(Tail(s))

\* [0f32].repeat(n), [0usize].repeat(n)
Repeat(v, n) == [i \in 1..n |-> v]

(***************************************************************************)
(* AxisHeader: the geometry of one axis.  axis is a record with the fields *)
(* data_points and tile_size (the other fields of the struct play no part  *)
(* in the geometry).  Integer division by zero panics.                     *)
(***************************************************************************)
\* num_tiles without the `+ tile_size - 1`: the division rounds down
num_tiles_no_round_up(axis) ==
    IF axis.tile_size = 0
      THEN [ok |-> FALSE, val |-> 0]
      ELSE [ok |-> TRUE, val |-> axis.data_points \div axis.tile_size]

num_tiles(axis) ==
    IF axis.tile_size = 0
      THEN [ok |-> FALSE, val |-> 0]
      ELSE [ok |-> TRUE,
            val |-> (axis.data_points + axis.tile_size - 1) \div axis.tile_size]

padded_size(axis) ==
    LET n == num_tiles(axis)
    IN  IF ~n.ok THEN n ELSE [ok |-> TRUE, val |-> n.val * axis.tile_size]

\* tile_is_padded comparing with the last tile slot instead of the full tiles
tile_is_padded_last_slot(axis, tile_n) ==
    LET n == num_tiles(axis)
    IN  IF ~n.ok THEN [ok |-> FALSE, val |-> FALSE]
        ELSE [ok |-> TRUE, val |-> tile_n >= n.val - 1]

tile_is_padded(axis, tile_n) ==
    IF axis.tile_size = 0
      THEN [ok |-> FALSE, val |-> FALSE]
      ELSE LET num_full_tiles == axis.data_points \div axis.tile_size
           IN  [ok |-> TRUE, val |-> tile_n >= num_full_tiles]

tile_padding(axis, tile_n) ==
    LET p == tile_is_padded(axis, tile_n)
    IN  IF ~p.ok THEN [ok |-> FALSE, val |-> 0]
        ELSE IF ~p.val THEN [ok |-> TRUE, val |-> 0]
        ELSE LET ps == padded_size(axis)
             IN  IF ~ps.ok THEN [ok |-> FALSE, val |-> 0]
                 ELSE [ok |-> TRUE, val |-> ps.val - axis.data_points]

(***************************************************************************)
(* The coordinate mapper.                                                  *)
(***************************************************************************)
\* sizes[(sizes.len() - subdimensions)..sizes.len()].iter().product()
TrailingProduct(sizes, subdimensions) ==
    Product(SubSeq(sizes, Len(sizes) - subdimensions + 1, Len(sizes)))

RECURSIVE PositionLoop(_, _, _, _)
\* the body of `for dim in 0..sizes.len()`, from dim on, with pos so far
PositionLoop(sizes, indices, dim, pos) ==
    IF dim >= Len(sizes) THEN pos
    ELSE LET subdimensions == Len(sizes) - (dim + 1)
             subdimensions_size ==
                 IF subdimensions >= 1
                   THEN TrailingProduct(sizes, subdimensions)
                   ELSE 0
             dim_index == indices[dim + 1]
             step == IF subdimensions_size = 0
                       THEN dim_index
                       ELSE dim_index * subdimensions_size
         IN  PositionLoop(sizes, indices, dim + 1, pos + step)

multi_dim_position(sizes, indices) ==
    IF Len(sizes) # Len(indices)
      THEN [ok |-> FALSE, val |-> 0]
      ELSE [ok |-> TRUE, val |-> PositionLoop(sizes, indices, 0, 0)]

multi_dim_index(sizes, pos) ==
    IF Len(sizes) = 2
      THEN IF sizes[2] = 0 THEN [ok |-> FALSE, val |-> <<>>]
           ELSE [ok |-> TRUE, val |-> <<pos \div sizes[2], pos % sizes[2]>>]
    ELSE IF Len(sizes) = 3
      THEN IF sizes[2] * sizes[3] = 0 \/ sizes[3] = 0
             THEN [ok |-> FALSE, val |-> <<>>]
             ELSE [ok |-> TRUE,
                   val |-> <<pos \div (sizes[2] * sizes[3]),
                             (pos % (sizes[2] * sizes[3])) \div sizes[3],
                             (pos % (sizes[2] * sizes[3])) % sizes[3]>>]
    \* _ => unimplemented!()
    ELSE [ok |-> FALSE, val |-> <<>>]

(***************************************************************************)
(* Input buffers.  An input is the image of a file (header, one axis       *)
(* record per dimension, sample stream), cut or extended to len bytes.     *)
(* The record names the fields the image is built from; ByteAt gives the   *)
(* bytes, and the parser below reads nothing but ByteAt and len.           *)
(***************************************************************************)
\* byte j (0 = most significant) of the big-endian encoding of v in width bytes
BeByte(v, width, j) == (v \div (256 ^ (width - 1 - j))) % 256

\* where the sample stream of the image starts
ImageDataStart(inp) == HeaderSize + AxisHeaderSize * Len(inp.axes)

ByteAt(inp, i) ==
    IF i < 8 THEN (IF inp.magic THEN MagicToken[i + 1] ELSE 0)
    ELSE IF i < 10 THEN 0
    ELSE IF i = 10 THEN inp.dimensions
    ELSE IF i = 11 THEN inp.components
    ELSE IF i < 14 THEN BeByte(inp.format_version, 2, i - 12)
    ELSE IF i < HeaderSize THEN 0
    ELSE IF i < ImageDataStart(inp)
      THEN LET rec == inp.axes[((i - HeaderSize) \div AxisHeaderSize) + 1]
               o   == (i - HeaderSize) % AxisHeaderSize
           IN  IF o \in 8..11 THEN BeByte(rec.data_points, 4, o - 8)
               ELSE IF o \in 16..19 THEN BeByte(rec.tile_size, 4, o - 16)
               ELSE 0
    \* sample k of the stream carries the bit pattern k + 1
    ELSE LET k == (i - ImageDataStart(inp)) \div SampleWidth
             o == (i - ImageDataStart(inp)) % SampleWidth
         IN  BeByte(k + 1, 4, o)

(***************************************************************************)
(* nom combinators over (input, cursor).                                   *)
(***************************************************************************)
\* take(n): succeeds when n bytes are left
CanTake(inp, cur, n) == cur + n <= inp.len

\* tag(b"UCSF NMR")
TagMatches(inp, cur) ==
    /\ CanTake(inp, cur, Len(MagicToken))
    /\ \A j \in 1..Len(MagicToken) : ByteAt(inp, cur + j - 1) = MagicToken[j]

be_u8(inp, cur) == ByteAt(inp, cur)

be_u16(inp, cur) == ByteAt(inp, cur) * 256 + ByteAt(inp, cur + 1)

be_u32(inp, cur) ==
    ByteAt(inp, cur) * 16777216 + ByteAt(inp, cur + 1) * 65536
        + ByteAt(inp, cur + 2) * 256 + ByteAt(inp, cur + 3)

\* f32::from_be_bytes on the 4-byte chunk at cur, as a bit pattern
f32_from_be_bytes(inp, cur) == be_u32(inp, cur)

(***************************************************************************)
(* Header::parse_raw and Header::parse.                                    *)
(***************************************************************************)
NoHeader == [dimensions |-> 0, components |-> 0, format_version |-> 0]

\* Header::parse_raw without the trailing take(166): 14 bytes are enough
Header_parse_raw_no_remainder(inp) ==
    IF TagMatches(inp, 0) /\ CanTake(inp, 0, 14)
      THEN [ok |-> TRUE, rem |-> 14,
            dimensions |-> be_u8(inp, 10),
            components |-> be_u8(inp, 11),
            format_version |-> be_u16(inp, 12)]
      ELSE [ok |-> FALSE, rem |-> 0,
            dimensions |-> 0, components |-> 0, format_version |-> 0]

Header_parse_raw(inp) ==
    IF TagMatches(inp, 0) /\ CanTake(inp, 0, HeaderSize)
      THEN [ok |-> TRUE, rem |-> HeaderSize,
            dimensions |-> be_u8(inp, 10),
            components |-> be_u8(inp, 11),
            format_version |-> be_u16(inp, 12)]
      ELSE [ok |-> FALSE, rem |-> 0,
            dimensions |-> 0, components |-> 0, format_version |-> 0]

\* Header::parse with its two checks swapped: format version before components
Header_parse_version_first(inp) ==
    LET res == Header_parse_raw(inp)
    IN  IF ~res.ok
          THEN [kind |-> "Err", err |-> "Parsing", rem |-> 0, header |-> NoHeader]
        ELSE IF res.format_version # 2
          THEN [kind |-> "Err", err |-> "UnsupportedFormat", rem |-> 0,
                header |-> NoHeader]
        ELSE IF res.components # 1
          THEN [kind |-> "Err", err |-> "UnsupportedComponents", rem |-> 0,
                header |-> NoHeader]
        ELSE [kind |-> "Ok", err |-> "", rem |-> res.rem,
              header |-> [dimensions |-> res.dimensions,
                          components |-> res.components,
                          format_version |-> res.format_version]]

Header_parse(inp) ==
    LET res == Header_parse_raw(inp)
    IN  IF ~res.ok
          THEN [kind |-> "Err", err |-> "Parsing", rem |-> 0, header |-> NoHeader]
        ELSE IF res.components # 1
          THEN [kind |-> "Err", err |-> "UnsupportedComponents", rem |-> 0,
                header |-> NoHeader]
        ELSE IF res.format_version # 2
          THEN [kind |-> "Err", err |-> "UnsupportedFormat", rem |-> 0,
                header |-> NoHeader]
        ELSE [kind |-> "Ok", err |-> "", rem |-> res.rem,
              header |-> [dimensions |-> res.dimensions,
                          components |-> res.components,
                          format_version |-> res.format_version]]

(***************************************************************************)
(* AxisHeader::parse_raw and AxisHeader::parse, at cursor cur.             *)
(***************************************************************************)
NoAxis == [data_points |-> 0, tile_size |-> 0]

\* AxisHeader::parse returning its input as the remainder: the cursor stays
AxisHeader_parse_no_advance(inp, cur) ==
    IF CanTake(inp, cur, AxisHeaderSize)
      THEN [kind |-> "Ok", err |-> "", rem |-> cur,
            axis |-> [data_points |-> be_u32(inp, cur + 8),
                      tile_size |-> be_u32(inp, cur + 16)]]
      ELSE [kind |-> "Err", err |-> "Parsing", rem |-> cur, axis |-> NoAxis]

AxisHeader_parse(inp, cur) ==
    IF CanTake(inp, cur, AxisHeaderSize)
      THEN [kind |-> "Ok", err |-> "", rem |-> cur + AxisHeaderSize,
            axis |-> [data_points |-> be_u32(inp, cur + 8),
                      tile_size |-> be_u32(inp, cur + 16)]]
      ELSE [kind |-> "Err", err |-> "Parsing", rem |-> cur, axis |-> NoAxis]

(***************************************************************************)
(* UcsfFile::calculate_data_size and UcsfFile::parse.                      *)
(***************************************************************************)
\* axis_headers.iter().map(|axis| axis.padded_size() as usize)
PaddedSizes(axis_headers) == [i \in 1..Len(axis_headers) |-> padded_size(axis_headers[i])]

\* calculate_data_size without the `* 4`: a count of samples, not of bytes
calculate_data_size_samples(axis_headers) ==
    LET ps == PaddedSizes(axis_headers)
    IN  IF \E i \in 1..Len(ps) : ~ps[i].ok
          THEN [ok |-> FALSE, val |-> 0]
          ELSE [ok |-> TRUE, val |-> Product([i \in 1..Len(ps) |-> ps[i].val])]

calculate_data_size(axis_headers) ==
    LET ps == PaddedSizes(axis_headers)
    IN  IF \E i \in 1..Len(ps) : ~ps[i].ok
          THEN [ok |-> FALSE, val |-> 0]
          ELSE [ok |-> TRUE,
                val |-> Product([i \in 1..Len(ps) |-> ps[i].val]) * SampleWidth]

NoFile == [header |-> NoHeader, axis_headers |-> <<>>, data |-> <<>>]

ParseFailed(err) == [kind |-> "Err", err |-> err, rem |-> 0, file |-> NoFile]

ParsePanicked == [kind |-> "Panic", err |-> "", rem |-> 0, file |-> NoFile]

RECURSIVE AxisLoop(_, _, _, _)
\* `for _ in 0..header.dimensions`, with left iterations to go
AxisLoop(inp, cur, left, axis_headers) ==
    IF left = 0
      THEN [kind |-> "Ok", rem |-> cur, axis_headers |-> axis_headers]
      ELSE LET a == AxisHeader_parse(inp, cur)
           IN  IF a.kind # "Ok"
                 THEN [kind |-> "Err", rem |-> cur, axis_headers |-> axis_headers]
                 ELSE AxisLoop(inp, a.rem, left - 1, Append(axis_headers, a.axis))

\* data.chunks(4).map(|chunk| f32::from_be_bytes(..)).collect()
DecodeSamples(inp, cur, size) ==
    [k \in 1..(size \div SampleWidth) |->
        f32_from_be_bytes(inp, cur + (k - 1) * SampleWidth)]

UcsfFile_parse(inp) ==
    LET h == Header_parse(inp)
    IN  IF h.kind # "Ok" THEN ParseFailed(h.err)
        ELSE LET axes == AxisLoop(inp, h.rem, h.header.dimensions, <<>>)
             IN  IF axes.kind # "Ok" THEN ParseFailed("Parsing")
                 ELSE LET data_size == calculate_data_size(axes.axis_headers)
                      IN  IF ~data_size.ok THEN ParsePanicked
                          ELSE IF ~CanTake(inp, axes.rem, data_size.val)
                            THEN ParseFailed("Parsing")
                          ELSE [kind |-> "Ok", err |-> "",
                                rem |-> axes.rem + data_size.val,
                                file |-> [header |-> h.header,
                                          axis_headers |-> axes.axis_headers,
                                          data |-> DecodeSamples(inp, axes.rem,
                                                                 data_size.val)]]

(***************************************************************************)
(* UcsfFile accessors.  They are only called on a parsed file, whose axes  *)
(* all passed calculate_data_size, so num_tiles cannot panic in them.      *)
(***************************************************************************)
axis_tiles(file) ==
    [i \in 1..Len(file.axis_headers) |-> num_tiles(file.axis_headers[i]).val]

axis_tile_sizes(file) ==
    [i \in 1..Len(file.axis_headers) |-> file.axis_headers[i].tile_size]

axis_sizes(file) ==
    [i \in 1..Len(file.axis_headers) |-> file.axis_headers[i].data_points]

(***************************************************************************)
(* Tiles::next.  A Tile's data is a slice of file.data: the model keeps    *)
(* the slice's values (data) and where it starts (data_range_start).       *)
(***************************************************************************)
NoTile == [axis_lengths |-> <<>>, axis_starts |-> <<>>, data |-> <<>>,
           data_range_start |-> 0]

\* data_range_start taken one tile further: tile_data_points * (next_index + 1)
data_range_start_of_next_tile(tile_data_points, next_index) ==
    tile_data_points * (next_index + 1)

\* the start of a tile's slice, from its sample count and the iterator's index
data_range_start_of(tile_data_points, next_index) ==
    tile_data_points * next_index

Tiles_next(file, next_index) ==
    LET tiles_per_axis == axis_tiles(file)
        tiles_total    == Product(tiles_per_axis)
    IN  IF tiles_total <= next_index
          THEN [kind |-> "None", tile |-> NoTile, next_index |-> next_index]
        ELSE
        LET tile_indices == multi_dim_index(tiles_per_axis, next_index)
        IN  IF ~tile_indices.ok
              THEN [kind |-> "Panic", tile |-> NoTile, next_index |-> next_index]
            ELSE
            LET n == Len(file.axis_headers)
                tile_sizes == axis_tile_sizes(file)
                this_tile_axis_lens ==
                    [i \in 1..n |->
                        tile_sizes[i]
                          - tile_padding(file.axis_headers[i], tile_indices.val[i]).val]
                axis_starts ==
                    [i \in 1..n |-> tile_sizes[i] * tile_indices.val[i]]
                tile_data_points == Product(this_tile_axis_lens)
                data_range_start ==
                    data_range_start_of(tile_data_points, next_index)
                data_range_end == data_range_start + tile_data_points
            IN  \* &self.file.data[data_range_start..data_range_end]
                IF data_range_end > Len(file.data)
                  THEN [kind |-> "Panic", tile |-> NoTile,
                        next_index |-> next_index + 1]
                  ELSE [kind |-> "Some",
                        tile |-> [axis_lengths |-> this_tile_axis_lens,
                                  axis_starts |-> axis_starts,
                                  data |-> SubSeq(file.data, data_range_start + 1,
                                                  data_range_end),
                                  data_range_start |-> data_range_start],
                        next_index |-> next_index + 1]

(***************************************************************************)
(* AbsolutePosValIter::next on a tile.                                     *)
(***************************************************************************)
NoItem == [pos |-> <<>>, val |-> 0]

\* AbsolutePosValIter::next without the `+ axis_start`: tile-relative positions
AbsolutePosValIter_next_relative(tile, next_index) ==
    IF next_index >= Len(tile.data)
      THEN [kind |-> "None", item |-> NoItem, next_index |-> next_index]
    ELSE
    LET axis_rel == multi_dim_index(tile.axis_lengths, next_index)
    IN  IF ~axis_rel.ok
          THEN [kind |-> "Panic", item |-> NoItem, next_index |-> next_index]
          ELSE [kind |-> "Some",
                item |-> [pos |-> axis_rel.val, val |-> tile.data[next_index + 1]],
                next_index |-> next_index + 1]

AbsolutePosValIter_next(tile, next_index) ==
    IF next_index >= Len(tile.data)
      THEN [kind |-> "None", item |-> NoItem, next_index |-> next_index]
    ELSE
    LET axis_rel == multi_dim_index(tile.axis_lengths, next_index)
    IN  IF ~axis_rel.ok
          THEN [kind |-> "Panic", item |-> NoItem, next_index |-> next_index]
          ELSE [kind |-> "Some",
                item |-> [pos |-> [i \in 1..Len(axis_rel.val) |->
                                      axis_rel.val[i] + tile.axis_starts[i]],
                          val |-> tile.data[next_index + 1]],
                next_index |-> next_index + 1]

(***************************************************************************)
(* UcsfFile::data_continous.                                               *)
(***************************************************************************)
\* the length of the buffer data_continous allocates
continous_len(file) == calculate_data_size(file.axis_headers).val

RECURSIVE ContinousTileLoop(_, _, _, _)
\* `for (axis_indices, value) in tile.iter_with_abolute_pos()`, from next_index on
ContinousTileLoop(file, tile, next_index, data) ==
    LET it == AbsolutePosValIter_next(tile, next_index)
    IN  IF it.kind = "None" THEN [ok |-> TRUE, data |-> data]
        ELSE IF it.kind = "Panic" THEN [ok |-> FALSE, data |-> data]
        ELSE LET pos == multi_dim_position(axis_sizes(file), it.item.pos)
             IN  IF ~pos.ok \/ pos.val >= Len(data)
                   THEN [ok |-> FALSE, data |-> data]
                   ELSE ContinousTileLoop(file, tile, it.next_index,
                            [data EXCEPT ![pos.val + 1] = it.item.val])

RECURSIVE ContinousLoop(_, _, _)
\* `for tile in self.tiles()`, from next_index on
ContinousLoop(file, next_index, data) ==
    LET t == Tiles_next(file, next_index)
    IN  IF t.kind = "None" THEN [kind |-> "Ok", data |-> data]
        ELSE IF t.kind = "Panic" THEN [kind |-> "Panic", data |-> <<>>]
        ELSE LET filled == ContinousTileLoop(file, t.tile, 0, data)
             IN  IF ~filled.ok THEN [kind |-> "Panic", data |-> <<>>]
                 ELSE ContinousLoop(file, t.next_index, filled.data)

data_continous(file) ==
    ContinousLoop(file, 0, Repeat(0, continous_len(file)))

(***************************************************************************)
(* The inputs of the model.                                                *)
(***************************************************************************)
AxisChoices == [data_points : 0..MaxPoints, tile_size : 0..MaxTile]

\* the numbers of dimensions whose axis records fit a buffer of MaxInputLen
DimensionChoices == 0..((MaxInputLen - HeaderSize) \div AxisHeaderSize)

\* the number of samples the writer of a file stores: the padded volume
ImageSamples(axes) ==
    IF \E i \in 1..Len(axes) : axes[i].tile_size = 0 THEN 0
    ELSE Product([i \in 1..Len(axes) |->
            ((axes[i].data_points + axes[i].tile_size - 1) \div axes[i].tile_size)
                * axes[i].tile_size])

ImageLen(axes) ==
    HeaderSize + AxisHeaderSize * Len(axes) + SampleWidth * ImageSamples(axes)

MakeInput(magic, components, format_version, axes, len) ==
    [magic |-> magic, dimensions |-> Len(axes), components |-> components,
     format_version |-> format_version, axes |-> axes, len |-> len]

\* a whole image, an image one byte short, an image with one byte after it
LenChoices(axes) ==
    { ImageLen(axes) - 1, ImageLen(axes), ImageLen(axes) + 1 } \cap (0..MaxInputLen)

\* an image cut short: inside the header, before and inside the last axis
\* record, right after the axis records, one sample before the end
CutChoices(axes) ==
    { HeaderSize - 1,
      HeaderSize + AxisHeaderSize * Len(axes) - AxisHeaderSize,
      HeaderSize + AxisHeaderSize * Len(axes) - 1,
      HeaderSize + AxisHeaderSize * Len(axes),
      ImageLen(axes) - SampleWidth } \cap ((HeaderSize - 1)..MaxInputLen)

\* inp is a file with a valid header and n axes, whole, cut short, or extended
\* by a byte
IsWellFormedInput(inp) ==
    \E n \in DimensionChoices : \E axes \in [1..n -> AxisChoices] :
        \E len \in LenChoices(axes) \cup CutChoices(axes) :
            inp = MakeInput(TRUE, 1, 2, axes, len)

\* inp is the whole image of a small file whose header fields vary
IsHeaderVariantInput(inp) ==
    \E magic \in BOOLEAN, components \in 0..2, format_version \in 1..3 :
        \E n \in 0..1 : \E axes \in [1..n -> AxisChoices] :
            inp = MakeInput(magic, components, format_version, axes, ImageLen(axes))

IsInput(inp) == IsWellFormedInput(inp) \/ IsHeaderVariantInput(inp)

(***************************************************************************)
(* The state: a program that parses one input and then uses the file.      *)
(***************************************************************************)
VARIABLES
    input,         \* the byte buffer handed to UcsfFile::parse
    pc,            \* "start", "parsed", "failed" (Err returned), "panicked"
    parsed,        \* what UcsfFile::parse returned
    tiles_iter,    \* the Tiles iterator: live, next_index
    tiles_out,     \* what the last Tiles::next returned
    yielded,       \* history: the tiles the iterator has yielded, in order
    pos_iter,      \* the AbsolutePosValIter over the last tile: live, next_index
    pos_out,       \* what the last AbsolutePosValIter::next returned
    continous,     \* what data_continous returned
    mapper,        \* a direct use of the coordinate mapper: arguments and results
    header_out,    \* what a direct call of Header::parse returned
    wide           \* a direct use of the axis geometry on full-width u32 fields

vars == <<input, pc, parsed, tiles_iter, tiles_out, yielded, pos_iter, pos_out,
          continous, mapper, header_out, wide>>

NoIter == [live |-> FALSE, next_index |-> 0]

NoTilesOut == [kind |-> "NotCalled", tile |-> NoTile]

NoPosOut == [kind |-> "NotCalled", item |-> NoItem]

NoContinous == [kind |-> "NotCalled", data |-> <<>>]

NoMapper == [step |-> "unused", sizes |-> <<>>, coords |-> <<>>, index |-> 0,
             position |-> [ok |-> TRUE, val |-> 0],
             indices |-> [ok |-> TRUE, val |-> <<>>]]

NoHeaderOut == [kind |-> "NotCalled", err |-> "", rem |-> 0, header |-> NoHeader]

NoWide == [step |-> "unused"]

Init ==
    /\ IsInput(input)
    /\ pc = "start"
    /\ parsed = [kind |-> "NotCalled", err |-> "", rem |-> 0, file |-> NoFile]
    /\ tiles_iter = NoIter
    /\ tiles_out = NoTilesOut
    /\ yielded = <<>>
    /\ pos_iter = NoIter
    /\ pos_out = NoPosOut
    /\ continous = NoContinous
    /\ mapper = NoMapper
    /\ header_out = NoHeaderOut
    /\ wide = NoWide

\* UcsfFile::parse(&input)
Parse ==
    /\ pc = "start"
    /\ parsed' = UcsfFile_parse(input)
    /\ pc' = CASE parsed'.kind = "Ok" -> "parsed"
               [] parsed'.kind = "Err" -> "failed"
               [] OTHER -> "panicked"
    /\ UNCHANGED <<input, tiles_iter, tiles_out, yielded, pos_iter, pos_out,
                   continous, mapper, header_out, wide>>

\* file.tiles(): Tiles::for_file
Tiles ==
    /\ pc = "parsed"
    /\ ~tiles_iter.live
    /\ tiles_iter' = [live |-> TRUE, next_index |-> 0]
    /\ UNCHANGED <<input, pc, parsed, tiles_out, yielded, pos_iter, pos_out,
                   continous, mapper, header_out, wide>>

\* tiles.next()
TilesNext ==
    /\ pc = "parsed"
    /\ tiles_iter.live
    /\ LET r == Tiles_next(parsed.file, tiles_iter.next_index)
       IN  /\ tiles_iter' = [tiles_iter EXCEPT !.next_index = r.next_index]
           /\ tiles_out' = [kind |-> r.kind, tile |-> r.tile]
           /\ yielded' = IF r.kind = "Some" THEN Append(yielded, r.tile)
                         ELSE yielded
           /\ pc' = IF r.kind = "Panic" THEN "panicked" ELSE pc
    /\ pos_iter' = NoIter
    /\ pos_out' = NoPosOut
    /\ UNCHANGED <<input, parsed, continous, mapper, header_out, wide>>

\* tile.iter_with_abolute_pos() on the tile last yielded
IterWithAbsolutePos ==
    /\ pc = "parsed"
    /\ tiles_out.kind = "Some"
    /\ ~pos_iter.live
    /\ pos_iter' = [live |-> TRUE, next_index |-> 0]
    /\ UNCHANGED <<input, pc, parsed, tiles_iter, tiles_out, yielded, pos_out,
                   continous, mapper, header_out, wide>>

\* iter.next()
PosNext ==
    /\ pc = "parsed"
    /\ pos_iter.live
    /\ LET r == AbsolutePosValIter_next(tiles_out.tile, pos_iter.next_index)
       IN  /\ pos_iter' = [pos_iter EXCEPT !.next_index = r.next_index]
           /\ pos_out' = [kind |-> r.kind, item |-> r.item]
           /\ pc' = IF r.kind = "Panic" THEN "panicked" ELSE pc
    /\ UNCHANGED <<input, parsed, tiles_iter, tiles_out, yielded, continous, mapper,
                   header_out, wide>>

\* file.data_continous()
DataContinous ==
    /\ pc = "parsed"
    /\ ~tiles_iter.live
    /\ continous.kind = "NotCalled"
    /\ continous' = data_continous(parsed.file)
    /\ pc' = IF continous'.kind = "Panic" THEN "panicked" ELSE pc
    /\ UNCHANGED <<input, parsed, tiles_iter, tiles_out, yielded, pos_iter,
                   pos_out, mapper, header_out, wide>>

Next ==
    \/ Parse
    \/ Tiles
    \/ TilesNext
    \/ IterWithAbsolutePos
    \/ PosNext
    \/ DataContinous

Spec == Init /\ [][Next]_vars

(***************************************************************************)
(* A second program: it calls the two mapper functions directly, on a      *)
(* sizes vector of 1 to MaxMapperDims extents, each 1..MaxExtent.          *)
(*   "coords": multi_dim_position(sizes, coords), then multi_dim_index of  *)
(*             the position it returned;                                   *)
(*   "index":  multi_dim_index(sizes, index), then multi_dim_position of   *)
(*             the indices it returned.                                    *)
(***************************************************************************)
\* every coordinate tuple inside the extents sizes
CoordsWithin(sizes) ==
    { c \in [1..Len(sizes) -> 0..(MaxExtent - 1)] :
        \A d \in 1..Len(sizes) : c[d] < sizes[d] }

\* a fixed input for the program that never parses
IdleInput == MakeInput(TRUE, 1, 2, <<>>, HeaderSize)

InitMapper ==
    /\ input = IdleInput
    /\ pc = "start"
    /\ parsed = [kind |-> "NotCalled", err |-> "", rem |-> 0, file |-> NoFile]
    /\ tiles_iter = NoIter
    /\ tiles_out = NoTilesOut
    /\ yielded = <<>>
    /\ pos_iter = NoIter
    /\ pos_out = NoPosOut
    /\ continous = NoContinous
    /\ header_out = NoHeaderOut
    /\ wide = NoWide
    /\ \E n \in 1..MaxMapperDims : \E sizes \in [1..n -> 1..MaxExtent] :
         \/ \E coords \in CoordsWithin(sizes) :
              mapper = [NoMapper EXCEPT !.step = "coords", !.sizes = sizes,
                                        !.coords = coords]
         \/ \E index \in 0..(Product(sizes) - 1) :
              mapper = [NoMapper EXCEPT !.step = "index", !.sizes = sizes,
                                        !.index = index]

fileVars == <<input, pc, parsed, tiles_iter, tiles_out, yielded, pos_iter, pos_out,
              continous, header_out, wide>>

\* multi_dim_position(&sizes, &coords)
PositionOfCoords ==
    /\ mapper.step = "coords"
    /\ LET r == multi_dim_position(mapper.sizes, mapper.coords)
       IN  mapper' = [mapper EXCEPT
                        !.position = r,
                        !.step = IF r.ok THEN "coords-position" ELSE "panicked"]
    /\ UNCHANGED fileVars

\* multi_dim_index(&sizes, position)
IndexOfPosition ==
    /\ mapper.step = "coords-position"
    /\ LET r == multi_dim_index(mapper.sizes, mapper.position.val)
       IN  mapper' = [mapper EXCEPT
                        !.indices = r,
                        !.step = IF r.ok THEN "coords-done" ELSE "panicked"]
    /\ UNCHANGED fileVars

\* multi_dim_index(&sizes, index)
IndexOfIndex ==
    /\ mapper.step = "index"
    /\ LET r == multi_dim_index(mapper.sizes, mapper.index)
       IN  mapper' = [mapper EXCEPT
                        !.indices = r,
                        !.step = IF r.ok THEN "index-indices" ELSE "panicked"]
    /\ UNCHANGED fileVars

\* multi_dim_position(&sizes, &indices)
PositionOfIndices ==
    /\ mapper.step = "index-indices"
    /\ LET r == multi_dim_position(mapper.sizes, mapper.indices.val)
       IN  mapper' = [mapper EXCEPT
                        !.position = r,
                        !.step = IF r.ok THEN "index-done" ELSE "panicked"]
    /\ UNCHANGED fileVars

NextMapper ==
    \/ PositionOfCoords
    \/ IndexOfPosition
    \/ IndexOfIndex
    \/ PositionOfIndices

SpecMapper == InitMapper /\ [][NextMapper]_vars

(***************************************************************************)
(* A third program: it calls Header::parse directly on a buffer, as the     *)
(* tests parse_header and parse_header_format_error do.  The buffers are    *)
(* images of files of 0 or 1 axes whose magic token, component count and    *)
(* format version vary, cut to lengths around the fields of the header.     *)
(***************************************************************************)
\* format versions whose two bytes both matter: 0x0102 and 0x0200
TwoByteVersions == {258, 512}

\* buffer lengths: empty, inside and just after the magic token, before and
\* after the version field, one short of the header, the header, longer
HeaderLenChoices ==
    {0, 7, 8, 11, 12, 13, 14, HeaderSize - 1, HeaderSize, HeaderSize + 1,
     HeaderSize + AxisHeaderSize}

IsHeaderInput(inp) ==
    \E magic \in BOOLEAN, components \in 0..MaxComponents,
       format_version \in (0..MaxFormatVersion) \cup TwoByteVersions :
        \E n \in 0..1 : \E axes \in [1..n -> {[data_points |-> 1, tile_size |-> 1]}] :
            \E len \in HeaderLenChoices :
                inp = MakeInput(magic, components, format_version, axes, len)

InitHeader ==
    /\ IsHeaderInput(input)
    /\ pc = "start"
    /\ parsed = [kind |-> "NotCalled", err |-> "", rem |-> 0, file |-> NoFile]
    /\ tiles_iter = NoIter
    /\ tiles_out = NoTilesOut
    /\ yielded = <<>>
    /\ pos_iter = NoIter
    /\ pos_out = NoPosOut
    /\ continous = NoContinous
    /\ mapper = NoMapper
    /\ header_out = NoHeaderOut
    /\ wide = NoWide

\* Header::parse(&input)
HeaderParse ==
    /\ header_out.kind = "NotCalled"
    /\ header_out' = Header_parse(input)
    /\ UNCHANGED <<input, pc, parsed, tiles_iter, tiles_out, yielded, pos_iter,
                   pos_out, continous, mapper, wide>>

NextHeader == HeaderParse

SpecHeader == InitHeader /\ [][NextHeader]_vars

(***************************************************************************)
(* The axis geometry at the full width of its fields.  data_points and     *)
(* tile_size are u32; the operators above compute on values far below the  *)
(* u32 range, where +, -, * and / are exact.  Here a number is a sequence   *)
(* of 8 base-256 digits, least significant first (64 bits, enough for the   *)
(* exact sum and product of two u32), and a u32 is such a number whose      *)
(* digits 5..8 are 0.  An arithmetic overflow of a u32 operation panics in  *)
(* a build with overflow checks (the dev profile) and wraps modulo 2^32     *)
(* without them (the release profile); a division by zero always panics.   *)
(***************************************************************************)
W_Zero == <<0, 0, 0, 0, 0, 0, 0, 0>>

W_One == <<1, 0, 0, 0, 0, 0, 0, 0>>

\* u32::MAX = 2^32 - 1
U32Max == <<255, 255, 255, 255, 0, 0, 0, 0>>

RECURSIVE W_AddDigits(_, _, _, _)
\* digits i.. of a + b + carry, modulo 256^8
W_AddDigits(a, b, i, carry) ==
    IF i > Len(a) THEN <<>>
    ELSE LET t == a[i] + b[i] + carry
         IN  <<t % 256>> \o W_AddDigits(a, b, i + 1, t \div 256)

W_Add(a, b) == W_AddDigits(a, b, 1, 0)

RECURSIVE W_SubDigits(_, _, _, _)
\* digits i.. of a - b - borrow, modulo 256^8
W_SubDigits(a, b, i, borrow) ==
    IF i > Len(a) THEN <<>>
    ELSE LET t == a[i] - b[i] - borrow
         IN  IF t < 0 THEN <<t + 256>> \o W_SubDigits(a, b, i + 1, 1)
                      ELSE <<t>> \o W_SubDigits(a, b, i + 1, 0)

W_Sub(a, b) == W_SubDigits(a, b, 1, 0)

RECURSIVE W_LessFrom(_, _, _)
\* a < b, comparing from digit i down
W_LessFrom(a, b, i) ==
    IF i = 0 THEN FALSE
    ELSE IF a[i] # b[i] THEN a[i] < b[i]
    ELSE W_LessFrom(a, b, i - 1)

W_Less(a, b) == W_LessFrom(a, b, Len(a))

RECURSIVE W_ColumnSum(_, _, _, _)
\* the sum of a[i] * b[k + 1 - i] for i in 1..upto
W_ColumnSum(a, b, k, upto) ==
    IF upto = 0 THEN 0
    ELSE a[upto] * b[k + 1 - upto] + W_ColumnSum(a, b, k, upto - 1)

RECURSIVE W_MulDigits(_, _, _, _)
\* digits k.. of a * b, modulo 256^8
W_MulDigits(a, b, k, carry) ==
    IF k > Len(a) THEN <<>>
    ELSE LET t == W_ColumnSum(a, b, k, k) + carry
         IN  <<t % 256>> \o W_MulDigits(a, b, k + 1, t \div 256)

W_Mul(a, b) == W_MulDigits(a, b, 1, 0)

RECURSIVE W_DivBits(_, _, _, _)
\* binary long division by b # 0 over the bits k..0 of the digit byte, r being
\* the remainder of what is above them: the quotient digit and the remainder
W_DivBits(r, byte, b, k) ==
    IF k < 0 THEN [q |-> 0, r |-> r]
    ELSE LET r2 == W_AddDigits(r, r, 1, (byte \div (2 ^ k)) % 2)
         IN  IF W_Less(r2, b)
               THEN W_DivBits(r2, byte, b, k - 1)
               ELSE LET rest == W_DivBits(W_Sub(r2, b), byte, b, k - 1)
                    IN  [q |-> rest.q + 2 ^ k, r |-> rest.r]

RECURSIVE W_DivDigits(_, _, _, _)
\* long division of a by b # 0 from digit i down
W_DivDigits(a, b, i, r) ==
    IF i = 0 THEN [q |-> W_Zero, r |-> r]
    ELSE LET d    == W_DivBits(r, a[i], b, 7)
             rest == W_DivDigits(a, b, i - 1, d.r)
         IN  [q |-> [rest.q EXCEPT ![i] = d.q], r |-> rest.r]

\* quotient and remainder of a by b # 0
W_DivMod(a, b) == W_DivDigits(a, b, Len(a), W_Zero)

\* the number fits a u32
IsU32(w) == \A i \in 5..Len(w) : w[i] = 0

\* the low 32 bits
WrapU32(w) == [i \in 1..Len(w) |-> IF i <= 4 THEN w[i] ELSE 0]

\* a panic
U32Panic == [ok |-> FALSE, val |-> W_Zero]

\* u32 + u32
u32_add(a, b, overflow_checks) ==
    LET s == W_Add(a, b)
    IN  IF IsU32(s) THEN [ok |-> TRUE, val |-> s]
        ELSE IF overflow_checks THEN U32Panic
        ELSE [ok |-> TRUE, val |-> WrapU32(s)]

\* u32 - u32
u32_sub(a, b, overflow_checks) ==
    IF ~W_Less(a, b) THEN [ok |-> TRUE, val |-> W_Sub(a, b)]
    ELSE IF overflow_checks THEN U32Panic
    ELSE [ok |-> TRUE, val |-> WrapU32(W_Sub(a, b))]

\* u32 * u32
u32_mul(a, b, overflow_checks) ==
    LET p == W_Mul(a, b)
    IN  IF IsU32(p) THEN [ok |-> TRUE, val |-> p]
        ELSE IF overflow_checks THEN U32Panic
        ELSE [ok |-> TRUE, val |-> WrapU32(p)]

\* u32 / u32
u32_div(a, b) ==
    IF b = W_Zero THEN U32Panic
    ELSE [ok |-> TRUE, val |-> W_DivMod(a, b).q]

\* AxisHeader::num_tiles: (self.data_points + self.tile_size - 1) / self.tile_size
num_tiles_u32(axis, overflow_checks) ==
    LET sum == u32_add(axis.data_points, axis.tile_size, overflow_checks)
    IN  IF ~sum.ok THEN U32Panic
        ELSE LET less_one == u32_sub(sum.val, W_One, overflow_checks)
             IN  IF ~less_one.ok THEN U32Panic
                 ELSE u32_div(less_one.val, axis.tile_size)

\* AxisHeader::padded_size: self.num_tiles() * self.tile_size
padded_size_u32(axis, overflow_checks) ==
    LET n == num_tiles_u32(axis, overflow_checks)
    IN  IF ~n.ok THEN U32Panic
        ELSE u32_mul(n.val, axis.tile_size, overflow_checks)

(***************************************************************************)
(* A fourth program: it calls num_tiles() and then padded_size() on one     *)
(* axis whose fields range over small values, values just below 2^32 and    *)
(* powers of two in between, in a build with or without overflow checks.    *)
(***************************************************************************)
\* the small number n as a wide number
W_FromNat(n) == [i \in 1..Len(W_Zero) |-> IF i = 1 THEN n ELSE 0]

\* 2^16, 2^24 and 2^31
W_Powers == { <<0, 0, 1, 0, 0, 0, 0, 0>>, <<0, 0, 0, 1, 0, 0, 0, 0>>,
              <<0, 0, 0, 128, 0, 0, 0, 0>> }

U32Choices ==
    { W_FromNat(n) : n \in 0..MaxWideOffset }
        \cup { W_Sub(U32Max, W_FromNat(n)) : n \in 0..MaxWideOffset }
        \cup W_Powers

InitWide ==
    /\ input = IdleInput
    /\ pc = "start"
    /\ parsed = [kind |-> "NotCalled", err |-> "", rem |-> 0, file |-> NoFile]
    /\ tiles_iter = NoIter
    /\ tiles_out = NoTilesOut
    /\ yielded = <<>>
    /\ pos_iter = NoIter
    /\ pos_out = NoPosOut
    /\ continous = NoContinous
    /\ mapper = NoMapper
    /\ header_out = NoHeaderOut
    /\ \E data_points \in U32Choices, tile_size \in U32Choices,
          overflow_checks \in BOOLEAN :
         wide = [step |-> "start",
                 axis |-> [data_points |-> data_points, tile_size |-> tile_size],
                 overflow_checks |-> overflow_checks,
                 num_tiles |-> [ok |-> TRUE, val |-> W_Zero],
                 padded_size |-> [ok |-> TRUE, val |-> W_Zero]]

\* axis.num_tiles()
NumTilesWide ==
    /\ wide.step = "start"
    /\ LET r == num_tiles_u32(wide.axis, wide.overflow_checks)
       IN  wide' = [wide EXCEPT !.num_tiles = r,
                                !.step = IF r.ok THEN "counted" ELSE "panicked"]
    /\ UNCHANGED <<input, pc, parsed, tiles_iter, tiles_out, yielded, pos_iter,
                   pos_out, continous, mapper, header_out>>

\* axis.padded_size()
PaddedSizeWide ==
    /\ wide.step = "counted"
    /\ LET r == padded_size_u32(wide.axis, wide.overflow_checks)
       IN  wide' = [wide EXCEPT !.padded_size = r,
                                !.step = IF r.ok THEN "sized" ELSE "panicked"]
    /\ UNCHANGED <<input, pc, parsed, tiles_iter, tiles_out, yielded, pos_iter,
                   pos_out, continous, mapper, header_out>>

NextWide ==
    \/ NumTilesWide
    \/ PaddedSizeWide

SpecWide == InitWide /\ [][NextWide]_vars

(***************************************************************************)
(* Reference definitions the properties are stated with: the row-major     *)
(* formulas and the tile geometry as the format defines them, written      *)
(* independently of the operators above.                                   *)
(***************************************************************************)
RECURSIVE Sum(_)
Sum(s) == IF s = <<>> THEN 0 ELSE Head(s) + Sum(Tail(s))

\* the product of the extents after dimension d
TrailingVolume(sizes, d) == Product(SubSeq(sizes, d + 1, Len(sizes)))

\* index = sum over d of coords[d] * (product of the sizes after d)
RowMajorPosition(sizes, coords) ==
    Sum([d \in 1..Len(sizes) |-> coords[d] * TrailingVolume(sizes, d)])

\* the coordinates whose RowMajorPosition is index
RowMajorCoords(sizes, index) ==
    [d \in 1..Len(sizes) |-> (index \div TrailingVolume(sizes, d)) % sizes[d]]

CeilDiv(a, b) == IF a % b = 0 THEN a \div b ELSE (a \div b) + 1

ParsedOk == parsed.kind = "Ok"

Axes == parsed.file.axis_headers

Dims == Len(Axes)

AllAxesPositive == \A d \in 1..Dims : Axes[d].data_points > 0 /\ Axes[d].tile_size > 0

DataPoints == [d \in 1..Dims |-> Axes[d].data_points]

TileSizes == [d \in 1..Dims |-> Axes[d].tile_size]

TileCounts == [d \in 1..Dims |-> CeilDiv(Axes[d].data_points, Axes[d].tile_size)]

PaddedExtents == [d \in 1..Dims |-> TileCounts[d] * Axes[d].tile_size]

TotalTiles == Product(TileCounts)

\* some axis has a partially filled last tile
SomeAxisPadded == \E d \in 1..Dims : Axes[d].data_points % Axes[d].tile_size # 0

\* every absolute coordinate of the spectrum
ValidCoords ==
    { x \in [1..Dims -> 0..(MaxPoints - 1)] : \A d \in 1..Dims : x[d] < DataPoints[d] }

\* where the sample stream stores the sample of coordinate x: full tiles in
\* row-major order, row-major within each full tile
StreamPosition(x) ==
    RowMajorPosition(TileCounts, [d \in 1..Dims |-> x[d] \div TileSizes[d]])
        * Product(TileSizes)
      + RowMajorPosition(TileSizes, [d \in 1..Dims |-> x[d] % TileSizes[d]])

\* the number of valid samples of a yielded tile
TrimmedCount(tile) == Product(tile.axis_lengths)

YieldedCounts == [k \in 1..Len(yielded) |-> TrimmedCount(yielded[k])]

(***************************************************************************)
(* Properties of the tile layout and the dense reconstruction.             *)
(***************************************************************************)
\* C1: in the buffer data_continous returns, every valid coordinate x holds,
\* at the row-major position of x over data_points, the sample the tiled
\* stream stores for x.
C1_DenseHoldsStreamSamples ==
    continous.kind = "Ok" =>
        \A x \in ValidCoords :
            LET p == RowMajorPosition(DataPoints, x)
            IN  /\ p < Len(continous.data)
                /\ continous.data[p + 1] = parsed.file.data[StreamPosition(x) + 1]

\* C2: the slice of every yielded tile starts at the sum of the trimmed sample
\* counts of the tiles yielded before it and is as long as its own trimmed
\* sample count.
C2_CumulativeSliceOffsets ==
    \A k \in 1..Len(yielded) :
        /\ yielded[k].data_range_start = Sum(SubSeq(YieldedCounts, 1, k - 1))
        /\ Len(yielded[k].data) = TrimmedCount(yielded[k])

\* C3: the buffer data_continous returns is as long as the product of the
\* data_points of all axes, and every element no sample was written to is 0.
C3_DenseLengthIsUnpaddedVolume ==
    continous.kind = "Ok" =>
        /\ Len(continous.data) = Product(DataPoints)
        /\ \A p \in 0..(Len(continous.data) - 1) :
               (\A x \in ValidCoords : RowMajorPosition(DataPoints, x) # p)
                   => continous.data[p + 1] = 0

\* C4: on a file whose axes all have data_points > 0 and tile_size > 0, once
\* tiles() has ended, the trimmed sample counts of the tiles it yielded sum up
\* to the product of the data_points of all axes.
C4_TileVolumesSumToDataPoints ==
    (ParsedOk /\ Dims >= 1 /\ AllAxesPositive
        /\ tiles_out.kind \in {"None", "Panic"})
        => Sum(YieldedCounts) = Product(DataPoints)

\* C5: the two mapper functions are inverses of each other: for every sizes
\* vector with positive extents, multi_dim_index of multi_dim_position of
\* coords is coords, and multi_dim_position of multi_dim_index of an index
\* below the product of the sizes is that index.
C5_MapperRoundTrip ==
    /\ mapper.step # "panicked"
    /\ mapper.step = "coords-done" => mapper.indices.val = mapper.coords
    /\ mapper.step = "index-done" => mapper.position.val = mapper.index

\* C6: tiles() yields exactly TotalTiles tiles and then None on every call;
\* the k-th tile is the one at the row-major coordinates of k over the tile
\* counts, it starts at tile_size * tile_index on every axis and its valid
\* length there is tile_size minus the padding of that tile index.
C6_TilesInRowMajorOrder ==
    (ParsedOk /\ Dims >= 1) =>
        /\ tiles_out.kind # "Panic"
        /\ Len(yielded) <= TotalTiles
        /\ tiles_out.kind = "None" => Len(yielded) = TotalTiles
        /\ (tiles_iter.live /\ tiles_iter.next_index >= TotalTiles)
               => Tiles_next(parsed.file, tiles_iter.next_index).kind = "None"
        /\ \A k \in 1..Len(yielded) :
               LET tile_index == RowMajorCoords(TileCounts, k - 1)
               IN  \A d \in 1..Dims :
                     /\ yielded[k].axis_starts[d] = TileSizes[d] * tile_index[d]
                     /\ yielded[k].axis_lengths[d] =
                            TileSizes[d]
                              - (IF tile_index[d] < DataPoints[d] \div TileSizes[d]
                                   THEN 0
                                   ELSE PaddedExtents[d] - DataPoints[d])

\* C7: on every tile tiles() yields, iter_with_abolute_pos() yields one pair
\* per valid sample and then None; the pair of local index i holds the
\* row-major coordinates of i over axis_lengths plus axis_starts, which lie
\* inside the tile and inside the axis, and element i of the tile's slice.
C7_AbsolutePositions ==
    (ParsedOk /\ tiles_out.kind = "Some") =>
        LET tile == tiles_out.tile
        IN  /\ pos_out.kind # "Panic"
            /\ pos_iter.next_index <= TrimmedCount(tile)
            /\ pos_out.kind = "None" => pos_iter.next_index = TrimmedCount(tile)
            /\ pos_out.kind = "Some" =>
                 LET i   == pos_iter.next_index - 1
                     rel == RowMajorCoords(tile.axis_lengths, i)
                     abs == pos_out.item.pos
                 IN  /\ Len(abs) = Dims
                     /\ \A d \in 1..Dims :
                          /\ abs[d] = rel[d] + tile.axis_starts[d]
                          /\ abs[d] >= tile.axis_starts[d]
                          /\ abs[d] < tile.axis_starts[d] + tile.axis_lengths[d]
                          /\ abs[d] < DataPoints[d]
                     /\ pos_out.item.val = tile.data[i + 1]

\* C7 happens: a pair past the first is yielded on a tile that does not start
\* at the origin and is cut short by padding.
C7_Witness ==
    /\ ParsedOk
    /\ tiles_out.kind = "Some"
    /\ pos_out.kind = "Some"
    /\ pos_iter.next_index >= 2
    /\ \E d \in 1..Dims :
         /\ tiles_out.tile.axis_starts[d] > 0
         /\ tiles_out.tile.axis_lengths[d] < TileSizes[d]

\* C8: on every axis with data_points > 0 and tile_size > 0, num_tiles is the
\* least count of tiles covering the axis.
C8_NumTilesIsLeastCover ==
    ParsedOk =>
        \A d \in 1..Dims :
            (Axes[d].data_points > 0 /\ Axes[d].tile_size > 0) =>
                LET n == num_tiles(Axes[d])
                IN  /\ n.ok
                    /\ n.val * Axes[d].tile_size >= Axes[d].data_points
                    /\ (n.val - 1) * Axes[d].tile_size < Axes[d].data_points

\* C8 happens: the tiles of a parsed file with an axis that is not a whole
\* number of tiles have been counted by the tile iterator.
C8_Witness ==
    /\ ParsedOk
    /\ SomeAxisPadded
    /\ tiles_out.kind = "None"
    /\ Len(yielded) > 1

\* the tile indices of axis d
TileIndices(d) == 0..(TileCounts[d] - 1)

\* C9 as stated: tile_is_padded holds of the last tile slot of an axis and of
\* no other, and tile_padding is 0 but for the last, where it is the padded
\* extent minus data_points.
C9_PaddedIffLastSlot ==
    ParsedOk =>
        \A d \in 1..Dims : \A t \in TileIndices(d) :
            /\ tile_is_padded(Axes[d], t).val <=> (t = TileCounts[d] - 1)
            /\ tile_padding(Axes[d], t).val =
                 (IF t = TileCounts[d] - 1
                    THEN PaddedExtents[d] - DataPoints[d] ELSE 0)

\* C9 amended: tile_is_padded holds of the last tile slot when data_points is
\* not a multiple of tile_size, and of no other tile index; tile_padding is as
\* stated.
C9_PaddedIffPartialLastSlot ==
    ParsedOk =>
        \A d \in 1..Dims : \A t \in TileIndices(d) :
            /\ tile_is_padded(Axes[d], t).val
                 <=> (t = TileCounts[d] - 1 /\ DataPoints[d] % TileSizes[d] # 0)
            /\ tile_padding(Axes[d], t).val =
                 (IF t = TileCounts[d] - 1
                    THEN PaddedExtents[d] - DataPoints[d] ELSE 0)

\* C9 happens: the iterator has yielded the tiles of a file that has an axis
\* of several whole tiles and an axis whose last tile is partial.
C9_Witness ==
    /\ ParsedOk
    /\ tiles_out.kind = "None"
    /\ \E d \in 1..Dims : DataPoints[d] % TileSizes[d] = 0 /\ TileCounts[d] > 1
    /\ \E d \in 1..Dims : DataPoints[d] % TileSizes[d] # 0 /\ TileCounts[d] > 1

\* C10: a successful parse has consumed the header, one record per dimension
\* and 4 bytes per sample of the padded volume; the file holds that many
\* samples and what remains is the rest of the input, nothing for a whole file.
C10_ParseConsumesPaddedVolume ==
    ParsedOk =>
        /\ parsed.rem = HeaderSize
                          + AxisHeaderSize * parsed.file.header.dimensions
                          + SampleWidth * Product(PaddedExtents)
        /\ parsed.file.header.dimensions = input.dimensions
        /\ Len(parsed.file.data) = Product(PaddedExtents)
        /\ parsed.rem <= input.len
        /\ input.len = ImageLen(input.axes) => parsed.rem = input.len

\* C10 happens: a file with a padded axis was parsed, leaving one byte.
C10_Witness ==
    /\ ParsedOk
    /\ Dims >= 2
    /\ SomeAxisPadded
    /\ Len(parsed.file.data) > Product(DataPoints)
    /\ parsed.rem + 1 = input.len


(***************************************************************************)
(* Properties of the parser.                                               *)
(***************************************************************************)
RECURSIVE BigEndianAt(_, _, _)
\* the number the n bytes of inp from offset at on spell, most significant first
BigEndianAt(inp, at, n) ==
    IF n = 0 THEN 0
    ELSE BigEndianAt(inp, at, n - 1) * 256 + ByteAt(inp, at + n - 1)

\* where the i-th axis record (i from 1) starts in a buffer
RecordStart(i) == HeaderSize + AxisHeaderSize * (i - 1)

\* C11: a parsed file has exactly header.dimensions axis descriptors (the
\* byte at offset 10 of the buffer), and the i-th descriptor holds the fields
\* of the i-th consecutive 128-byte record after the 180-byte header:
\* data_points from bytes 8..11 and tile_size from bytes 16..19 of the
\* record at 180 + 128*i, all of it inside the buffer.
C11_AxisRecordsInOrder ==
    ParsedOk =>
        /\ Dims = parsed.file.header.dimensions
        /\ Dims = ByteAt(input, 10)
        /\ \A i \in 1..Dims :
             /\ RecordStart(i) + AxisHeaderSize <= input.len
             /\ Axes[i].data_points = BigEndianAt(input, RecordStart(i) + 8, 4)
             /\ Axes[i].tile_size = BigEndianAt(input, RecordStart(i) + 16, 4)

\* a parsed 3-axis file whose neighbouring axis records differ
C11_Witness ==
    /\ ParsedOk
    /\ Dims = 3
    /\ Axes[1] # Axes[2]
    /\ Axes[2] # Axes[3]

\* the buffer starts with the magic token
HasMagic == input.len >= Len(MagicToken)
            /\ \A j \in 1..Len(MagicToken) : ByteAt(input, j - 1) = MagicToken[j]

\* the fields of the header as the bytes of the buffer spell them
DimensionsField == ByteAt(input, 10)

ComponentsField == ByteAt(input, 11)

FormatVersionField == BigEndianAt(input, 12, 2)

\* the failure kind of the first violated check, "" when every check passes
FirstViolatedCheck ==
    IF ~HasMagic \/ input.len < HeaderSize THEN "Parsing"
    ELSE IF ComponentsField # 1 THEN "UnsupportedComponents"
    ELSE IF FormatVersionField # 2 THEN "UnsupportedFormat"
    ELSE ""

\* C12: Header::parse reports the first violated check in the order magic
\* (or a buffer shorter than the header) -> Parsing, component count # 1 ->
\* UnsupportedComponents (also when the version is unsupported too), format
\* version # 2 -> UnsupportedFormat; when no check is violated it succeeds,
\* returning the three fields and the buffer after the 180 header bytes.
C12_FirstViolatedCheckReported ==
    header_out.kind # "NotCalled" =>
        IF FirstViolatedCheck = ""
          THEN /\ header_out.kind = "Ok"
               /\ header_out.rem = HeaderSize
               /\ header_out.header = [dimensions |-> DimensionsField,
                                       components |-> ComponentsField,
                                       format_version |-> FormatVersionField]
          ELSE /\ header_out.kind = "Err"
               /\ header_out.err = FirstViolatedCheck

\* Header::parse returned UnsupportedComponents on a header whose format
\* version is unsupported as well
C12_Witness ==
    /\ header_out.kind = "Err"
    /\ header_out.err = "UnsupportedComponents"
    /\ HasMagic
    /\ FormatVersionField # 2

\* C13 as stated: whenever the component-count byte of the buffer is 2,
\* Header::parse fails with UnsupportedComponents, whatever the magic token,
\* the format version and the buffer length are.
C13_ComponentsTwoAlwaysUnsupported ==
    (header_out.kind # "NotCalled" /\ input.len >= 12 /\ ComponentsField = 2) =>
        (header_out.kind = "Err" /\ header_out.err = "UnsupportedComponents")

\* C13, amended: a buffer that starts with the magic token and holds the
\* whole 180-byte header, with component count 2, fails with
\* UnsupportedComponents whatever the format version and the dimension count
\* are; without the magic token, or cut short of 180 bytes, it fails with
\* Parsing instead.
C13_ComponentsTwoAfterMagic ==
    (header_out.kind # "NotCalled" /\ input.len >= 12 /\ ComponentsField = 2) =>
        /\ header_out.kind = "Err"
        /\ header_out.err = IF HasMagic /\ input.len >= HeaderSize
                              THEN "UnsupportedComponents"
                              ELSE "Parsing"

\* component count 2 was rejected on a whole header with an unsupported version
C13_Witness ==
    /\ header_out.kind = "Err"
    /\ header_out.err = "UnsupportedComponents"
    /\ ComponentsField = 2
    /\ FormatVersionField = 3
    /\ input.len >= HeaderSize

\* the fields of the i-th axis record (i from 1) as the bytes spell them
RecordDataPoints(i) == BigEndianAt(input, RecordStart(i) + 8, 4)

RecordTileSize(i) == BigEndianAt(input, RecordStart(i) + 16, 4)

\* where the axis records the header announces end
RecordsEnd == HeaderSize + AxisHeaderSize * DimensionsField

\* the fewest samples a stream holding the data points of the announced axes
\* can have: per axis the padded extent, and where the tile size is 0 (no
\* number of tiles covers the axis) at least the data points themselves
MinStreamSamples ==
    Product([i \in 1..DimensionsField |->
                IF RecordTileSize(i) > 0
                  THEN CeilDiv(RecordDataPoints(i), RecordTileSize(i))
                         * RecordTileSize(i)
                  ELSE RecordDataPoints(i)])

\* the buffer is shorter than the header, than the axis records the header
\* announces, or than the sample stream the axis records announce
TruncatedHeader == input.len < HeaderSize

TruncatedRecords == input.len >= HeaderSize /\ input.len < RecordsEnd

TruncatedStream ==
    /\ input.len >= RecordsEnd
    /\ input.len < RecordsEnd + SampleWidth * MinStreamSamples

\* C14: UcsfFile::parse of a truncated buffer returns Err(Parsing): it does
\* not panic and returns no file.  Truncated is: shorter than the 180-byte
\* header; or, with a header that passes its checks, shorter than the
\* announced axis records or than the padded sample stream they announce.
C14_TruncatedInputIsParsingError ==
    (/\ parsed.kind # "NotCalled"
     /\ \/ TruncatedHeader
        \/ FirstViolatedCheck = "" /\ (TruncatedRecords \/ TruncatedStream))
    => (parsed.kind = "Err" /\ parsed.err = "Parsing")

(***************************************************************************)
(* Properties of the coordinate mapper's domain.                           *)
(***************************************************************************)
\* C15: the coordinate mapper works for any number of dimensions: on a sizes
\* vector of any length N >= 1 (N = 1 and N = 4 included) with coordinates of
\* the same length, neither multi_dim_position nor multi_dim_index fails.
C15_MapperAnyDimension ==
    (Len(mapper.sizes) >= 1 /\ mapper.step # "coords" /\ mapper.step # "index")
        => (mapper.position.ok /\ mapper.indices.ok)

\* C16: every axis descriptor of a successfully parsed file has
\* tile_size > 0 and data_points > 0, and no geometry operation divides by
\* zero on a decoded axis: UcsfFile::parse, which sizes the sample stream
\* with padded_size of each decoded axis, does not panic.
C16_DecodedAxesPositive ==
    /\ ParsedOk => AllAxesPositive
    /\ parsed.kind # "Panic"

(***************************************************************************)
(* Memory safety of the dense reconstruction.                              *)
(***************************************************************************)
\* C17: on a parsed file of 2 or 3 axes with data_points > 0 and
\* tile_size > 0 on each axis, padded or not, data_continous() and the tile
\* iterator do not panic: the slice [data_range_start, data_range_end) of
\* every tile lies inside the sample buffer, and every position
\* data_continous writes (the row-major position of a valid coordinate in
\* the data_points extents) is below the length of the buffer it returns.
C17_DenseReconstructionInBounds ==
    (ParsedOk /\ Dims \in {2, 3} /\ AllAxesPositive) =>
        /\ continous.kind # "Panic"
        /\ tiles_out.kind # "Panic"
        /\ \A k \in 1..Len(yielded) :
             yielded[k].data_range_start + TrimmedCount(yielded[k])
                 <= Len(parsed.file.data)
        /\ continous.kind = "Ok" =>
             \A x \in ValidCoords :
                 RowMajorPosition(DataPoints, x) < Len(continous.data)

\* data_continous returned on a file with a padded axis and several tiles
C17_Witness ==
    /\ ParsedOk
    /\ Dims \in {2, 3}
    /\ AllAxesPositive
    /\ SomeAxisPadded
    /\ TotalTiles >= 2
    /\ continous.kind = "Ok"

(***************************************************************************)
(* Properties of the geometry at full width.                               *)
(***************************************************************************)
\* ceil(data_points / tile_size) as a mathematical integer, tile_size # 0
ExactNumTiles(axis) ==
    LET d == W_DivMod(axis.data_points, axis.tile_size)
    IN  IF d.r = W_Zero THEN d.q ELSE W_Add(d.q, W_One)

\* ceil(data_points / tile_size) * tile_size as a mathematical integer
ExactPaddedSize(axis) == W_Mul(ExactNumTiles(axis), axis.tile_size)

\* the value of a number of one digit
W_IsSmall(w) == \A i \in 2..Len(w) : w[i] = 0

\* the two models of the geometry agree where both apply: on one-digit
\* fields, num_tiles and padded_size computed on digits (with or without
\* overflow checks) are the values num_tiles and padded_size above compute
WideAgreesWithNarrow ==
    (wide.step # "unused" /\ W_IsSmall(wide.axis.data_points)
        /\ W_IsSmall(wide.axis.tile_size)) =>
        LET axis == [data_points |-> wide.axis.data_points[1],
                     tile_size |-> wide.axis.tile_size[1]]
            n == num_tiles_u32(wide.axis, wide.overflow_checks)
            p == padded_size_u32(wide.axis, wide.overflow_checks)
        IN  /\ n.ok = num_tiles(axis).ok
            /\ n.ok => (W_IsSmall(n.val) /\ n.val[1] = num_tiles(axis).val)
            /\ p.ok = padded_size(axis).ok
            /\ p.ok => (W_IsSmall(p.val) /\ p.val[1] = padded_size(axis).val)

\* C18: for all u32 data_points and tile_size > 0, num_tiles() is
\* ceil(data_points / tile_size) and padded_size() is num_tiles * tile_size
\* as mathematical integers, with no wrap-around and no overflow failure:
\* the calls do not panic, and the exact values fit 32 bits.
C18_GeometryExactOnU32 ==
    (wide.step \in {"counted", "sized", "panicked"}
        /\ wide.axis.tile_size # W_Zero) =>
        /\ wide.step # "panicked"
        /\ wide.num_tiles.val = ExactNumTiles(wide.axis)
        /\ wide.step = "sized" =>
               wide.padded_size.val = ExactPaddedSize(wide.axis)
        /\ IsU32(ExactPaddedSize(wide.axis))

=============================================================================
